---- MODULE Spec2Model ----
(***************************************************************************)
(* Model of CrossPlatformSync                                              *)
(* (src/backend/app/marketplace_integrations/cross_platform_sync.py):      *)
(* the performance-weighted inventory allocator (allocate_inventory) and   *)
(* the synchronization orchestrator (sync_inventory_levels,                *)
(* create_or_update_listing, update_listing_stock, delist_item), and of    *)
(* MarketResearchJob (market_research_jobs.py in the same package): the    *)
(* price trend (analyze_historical_prices) and the seasonal demand         *)
(* (predict_seasonal_demand) analyses.                                     *)
(*                                                                         *)
(* Weights are Python floats.  A weight is carried here as its number of   *)
(* twentieths (0.15 -> 3, 0.2 -> 4, 0.5 -> 10, 0.8 -> 16, 1.0 -> 20); the  *)
(* one place where binary64 arithmetic departs from the exact quotient,    *)
(* int(total_stock * w / total_weight) on line 118, is modelled by         *)
(* FloatShort, the inputs for which the float quotient lands just below    *)
(* the exact integer and int() therefore truncates to one less.            *)
(***************************************************************************)
EXTENDS Integers, Sequences, FiniteSets, TLC

\* ------------------------------------------------------------------ bounds

\* Largest total_stock handed to allocate_inventory in AllocSpec.
MaxStock == 16

\* Largest total_stock handed to sync_inventory_levels in Spec.
MaxSyncStock == 3

\* Largest total_stock handed to either of two concurrent calls in RaceSpec.
MaxRaceStock == 2

\* Most orders of the listing given to analyze_historical_prices in TrendSpec.
MaxOrders == 3

\* Most completed orders of one calendar month in the order tables of
\* SeasonSpec.
MaxCount == 2

\* Most orders of one listing in the order history of WeightSpec.
MaxHistory == 2

\* Most listings of the item in PricingSpec.
MaxPricedListings == 3

\* ------------------------------------------------------------- vocabulary

\* Marketplace names: "ebay" is registered in __init__, "amazon" and "etsy"
\* are the future clients named there.
Channels == {"ebay", "amazon", "etsy"}

\* Weight of a marketplace without any listing that has orders (line 70),
\* in twentieths: 1.0.
DefaultWeight == 20

\* The weights performance_data can carry, in twentieths:
\* 0.15 (only cancelled orders), 0.2, 0.5 (no terminal order), 0.8, 1.0.
Weights == {3, 4, 10, 16, DefaultWeight}

Range(s) == {s[i] : i \in 1..Len(s)}

\* Sequences over S without repetition, of every length.
RECURSIVE DistinctSeqs(_)
DistinctSeqs(S) ==
    IF S = {} THEN {<< >>}
    ELSE {<< >>} \cup
         UNION {{<<x>> \o t : t \in DistinctSeqs(S \ {x})} : x \in S}

\* sum(...) of a map's values.
RECURSIVE SumOver(_, _)
SumOver(f, D) ==
    IF D = {} THEN 0
    ELSE LET x == CHOOSE y \in D : TRUE IN f[x] + SumOver(f, D \ {x})

SumValues(f) == SumOver(f, DOMAIN f)

Max(a, b) == IF a >= b THEN a ELSE b

\* Python int(): truncation toward zero of a / b, b > 0.
Trunc(a, b) == IF a >= 0 THEN a \div b ELSE -((-a) \div b)

\* Position of m in the list ms (0-based, as enumerate gives it).
IndexOf(ms, m) == (CHOOSE i \in 1..Len(ms) : ms[i] = m) - 1

\* ------------------------------------------------------------ the allocator

\* <<total_stock, weight, weights of performance_data in insertion order>>
\* for which binary64 total_stock * weight / total_weight is below the exact
\* (integer) quotient, so that int() yields one less; all such inputs with
\* total_stock in -1..18, at most three marketplaces and weights in Weights.
FloatShort ==
    { <<9, 3, <<3, 4, 20>>>>, <<9, 3, <<4, 3, 20>>>>, <<9, 4, <<4, 4, 4>>>>,
      <<9, 16, <<4, 4, 16>>>>, <<9, 16, <<16, 16, 16>>>>, <<11, 3, <<3, 4, 4>>>>,
      <<11, 3, <<4, 3, 4>>>>, <<11, 3, <<4, 4, 3>>>>, <<13, 3, <<3, 16, 20>>>>,
      <<13, 3, <<16, 3, 20>>>>, <<15, 4, <<4, 4, 4>>>>, <<15, 16, <<4, 4, 16>>>>,
      <<15, 16, <<16, 16, 16>>>>, <<16, 3, <<3, 3, 10>>>>, <<16, 3, <<3, 10, 3>>>>,
      <<16, 3, <<10, 3, 3>>>>, <<17, 3, <<3, 10, 4>>>>, <<17, 3, <<10, 3, 4>>>>,
      <<17, 10, <<3, 10, 4>>>>, <<17, 10, <<10, 3, 4>>>>, <<18, 3, <<3, 4, 20>>>>,
      <<18, 3, <<4, 3, 20>>>>, <<18, 4, <<4, 4, 4>>>>, <<18, 4, <<4, 4, 16>>>>,
      <<18, 16, <<4, 4, 16>>>>, <<18, 16, <<16, 16, 16>>>> }

\* The weights of performance_data.values(), in insertion order.
WeightList(ms, w) == [i \in 1..Len(ms) |-> w[ms[i]]]

\* total_weight = sum(data['weight'] ...), line 116.
total_weight(ms, w) == SumOver(w, Range(ms))

\* int(total_stock * data['weight'] / total_weight), line 118.
IntShare(total_stock, m, ms, w) ==
    LET q == Trunc(total_stock * w[m], total_weight(ms, w))
    IN  IF <<total_stock, w[m], WeightList(ms, w)>> \in FloatShort
        THEN q - 1 ELSE q

\* base_allocations, lines 117-120.
base_allocations(total_stock, ms, w) ==
    [m \in Range(ms) |-> Max(1, IntShare(total_stock, m, ms, w))]

\* m comes before n in sorted(marketplaces, key=weight, reverse=True): the
\* sort is stable, so equal weights keep the order of the input list.
SortsBefore(ms, w, m, n) ==
    \/ w[m] > w[n]
    \/ w[m] = w[n] /\ IndexOf(ms, m) < IndexOf(ms, n)

\* The sort with reverse=True left out.
SortedAscending(ms, w) ==
    [i \in 1..Len(ms) |->
        CHOOSE m \in Range(ms) :
            Cardinality({n \in Range(ms) :
                \/ w[n] < w[m]
                \/ w[n] = w[m] /\ IndexOf(ms, n) < IndexOf(ms, m)}) = i - 1]

\* sorted_marketplaces, lines 129-133.
sorted_marketplaces(ms, w) ==
    [i \in 1..Len(ms) |->
        CHOOSE m \in Range(ms) :
            Cardinality({n \in Range(ms) : SortsBefore(ms, w, n, m)}) = i - 1]

\* The loop of lines 135-136 walking the sorted list from its end.
DistributeRemainingFromEnd(base, sorted, remaining) ==
    [m \in DOMAIN base |->
        base[m] + Cardinality({i \in 0..(remaining - 1) :
                                  sorted[Len(sorted) - (i % Len(sorted))] = m})]

\* The loop of lines 135-136: range(remaining) walks the sorted list cyclically.
DistributeRemaining(base, sorted, remaining) ==
    [m \in DOMAIN base |->
        base[m] + Cardinality({i \in 0..(remaining - 1) :
                                  sorted[(i % Len(sorted)) + 1] = m})]

\* The weighted path, lines 115-138: the locals at the return.
WeightedAllocation(total_stock, ms, w) ==
    LET base      == base_allocations(total_stock, ms, w)
        remaining == total_stock - SumValues(base)
    IN  [base      |-> base,
         remaining |-> remaining,
         value     |-> IF remaining > 0
                       THEN DistributeRemaining(base,
                                sorted_marketplaces(ms, w), remaining)
                       ELSE base]

\* The even distribution with `i <= remainder` for `i < remainder`.
FallbackOffByOne(total_stock, ms) ==
    LET n == Len(ms)
    IN  [m \in Range(ms) |->
            (total_stock \div n) +
            (IF IndexOf(ms, m) <= total_stock % n THEN 1 ELSE 0)]

\* The even distribution of the except clause, lines 143-149.
FallbackAllocation(total_stock, ms) ==
    LET base_amount == total_stock \div Len(ms)
        remainder   == total_stock % Len(ms)
    IN  [m \in Range(ms) |->
            base_amount + (IF IndexOf(ms, m) < remainder THEN 1 ELSE 0)]

EmptyMap == [m \in {} |-> 0]

\* allocate_inventory with the except clause re-raising.
AllocateWithoutHandler(total_stock, ms, w, lookupFails) ==
    IF ms = << >>
    THEN [outcome |-> "returned", path |-> "empty", value |-> EmptyMap,
          base |-> EmptyMap, remaining |-> 0]
    ELSE IF lookupFails
    THEN [outcome |-> "raised", path |-> "weighted", value |-> EmptyMap,
          base |-> EmptyMap, remaining |-> 0]
    ELSE LET a == WeightedAllocation(total_stock, ms, w)
         IN  [outcome |-> "returned", path |-> "weighted", value |-> a.value,
              base |-> a.base, remaining |-> a.remaining]

\* allocate_inventory, lines 46-149.  lookupFails: something inside the try
\* block (awaiting the db handle, find_many, the weight arithmetic) raises;
\* `except Exception` then returns the even distribution.
allocate_inventory(total_stock, ms, w, lookupFails) ==
    IF ms = << >>
    THEN [outcome |-> "returned", path |-> "empty", value |-> EmptyMap,
          base |-> EmptyMap, remaining |-> 0]
    ELSE IF lookupFails
    THEN [outcome |-> "returned", path |-> "fallback",
          value |-> FallbackAllocation(total_stock, ms),
          base |-> EmptyMap, remaining |-> 0]
    ELSE LET a == WeightedAllocation(total_stock, ms, w)
         IN  [outcome |-> "returned", path |-> "weighted", value |-> a.value,
              base |-> a.base, remaining |-> a.remaining]

\* ---------------------------------------------------------- the orchestrator

\* Listing ids of the item being synchronized.
Listings == {"L1", "L2", "L3"}

\* The marketplaces the item's listings are on.
ListingChannels == {"ebay", "amazon"}

\* Adapter registries: the one __init__ builds, and it with a second client.
Registries == {{"ebay"}, {"ebay", "amazon"}}

\* Sequences that list every element of S exactly once.
Orderings(S) == {q \in DistinctSeqs(S) : Range(q) = S}

\* Lines 204-225 with `allocated_stock <= 1` for `allocated_stock == 0`.
ScheduledOpDelistsLast(allocated_stock) ==
    IF allocated_stock <= 1
    THEN [op |-> "end_listing", quantity |-> 0,
          result |-> [action |-> "delisted", new_stock |-> 0]]
    ELSE [op |-> "update_stock", quantity |-> allocated_stock,
          result |-> [action |-> "updated", new_stock |-> allocated_stock]]

\* The branch of lines 204-225: the task scheduled for a listing and the
\* entry written to results[listing.id].
ScheduledOp(allocated_stock) ==
    IF allocated_stock = 0
    THEN [op |-> "end_listing", quantity |-> 0,
          result |-> [action |-> "delisted", new_stock |-> 0]]
    ELSE [op |-> "update_stock", quantity |-> allocated_stock,
          result |-> [action |-> "updated", new_stock |-> allocated_stock]]

\* The write-back with `where` naming the listing's marketplace.
WriteTargetsByMarketplace(l, listing) ==
    {k \in DOMAIN listing : listing[k].marketplace = listing[l].marketplace}

\* The records the write-back of listing l's task updates, lines 325-326 and
\* 360-361: where={'id': listing_id}.
WriteTargets(l, listing) == {l}

\* The record after the write-back, lines 327-330 and 362-365: update_stock
\* stores the quantity, end_listing the status.
WrittenRecord(record, sched) ==
    IF sched.op = "end_listing"
    THEN [record EXCEPT !.status = "ended"]
    ELSE [record EXCEPT !.quantity = sched.quantity]

\* The adapter exception is swallowed and the write-back follows.
WriteBackAnyway(ok) == "called"

\* A failed adapter call leaves the task to call again.
RetryAdapterCall(ok) == IF ok THEN "called" ELSE "scheduled"

\* update_listing_stock / delist_item after the adapter call, lines 321-340
\* and 356-375: on to the write-back, or the exception is logged and raised.
AfterAdapterCall(ok) == IF ok THEN "called" ELSE "failed"

\* create_or_update_listing without its `except Exception` clause.
AfterCreateAttemptEscapes(outcome) ==
    IF outcome = "unexpected" THEN "raised" ELSE "loop"

\* Lines 286-297: both except clauses record the error and the loop goes on.
AfterCreateAttempt(outcome) == "loop"

\* The entry of results[marketplace], lines 275-297.
CreateEntry(registered, outcome) ==
    IF ~registered THEN [status |-> "error", error |-> "unsupported"]
    ELSE IF outcome = "ok" THEN [status |-> "success", error |-> "none"]
    ELSE [status |-> "error", error |-> outcome]

\* ------------------------------------------------------ the market analyses

\* A number as a fraction; a zero denominator is the float nan.
Fraction(num, den) == [num |-> num, den |-> den]

Zero == Fraction(0, 1)

One == Fraction(1, 1)

NaN == Fraction(0, 0)

SetMax(S) == CHOOSE x \in S : \A y \in S : y <= x

SetMin(S) == CHOOSE x \in S : \A y \in S : x <= y

\* Sequences over S of length at most n.
SeqsUpTo(S, n) == UNION {[1..k -> S] : k \in 0..n}

\* Prices of listings and orders, and the days they were created on.
TrendPrices == {100, 102, 104, 106}

TrendDays == {0, 1, 2, 3, 250}

\* The orders of a listing: completed ones, and one that is not completed.
OrderRecords ==
    [status : {"completed"}, totalPrice : TrendPrices, createdAt : TrendDays]
    \cup [status : {"pending"}, totalPrice : {102}, createdAt : {1}]

\* listing.orders lists the orders oldest first, cheaper first within a day.
OldestFirst(orders) ==
    \A i \in 1..(Len(orders) - 1) :
        \/ orders[i].createdAt < orders[i + 1].createdAt
        \/ /\ orders[i].createdAt = orders[i + 1].createdAt
           /\ orders[i].totalPrice <= orders[i + 1].totalPrice

\* The listings analyze_historical_prices may find for an item.
TrendListings ==
    [price : {100, 106}, createdAt : {0, 1},
     orders : {q \in SeqsUpTo(OrderRecords, MaxOrders) : OldestFirst(q)}]

\* No listing, one listing with its orders, or two listings without orders.
TrendInputs ==
    {<< >>}
    \cup {<<l>> : l \in TrendListings}
    \cup {<<l, k>> : l, k \in {x \in TrendListings : x.orders = << >>}}

\* Lines 121-135: the listing's price, then the price of each completed order.
ListingSamples(listing) ==
    LET sold == SelectSeq(listing.orders, LAMBDA o : o.status = "completed")
    IN  <<[price |-> listing.price, date |-> listing.createdAt,
           type |-> "listing"]>>
        \o [i \in 1..Len(sold) |->
              [price |-> sold[i].totalPrice, date |-> sold[i].createdAt,
               type |-> "sale"]]

\* Lines 119-135.
RECURSIVE CollectSamples(_)
CollectSamples(listings) ==
    IF listings = << >> THEN << >>
    ELSE ListingSamples(Head(listings)) \o CollectSamples(Tail(listings))

\* price_data.sort(key=date), line 138: ascending and stable.
SortByDate(samples) ==
    LET rank(i) ==
            1 + Cardinality({j \in 1..Len(samples) :
                               \/ samples[j].date < samples[i].date
                               \/ /\ samples[j].date = samples[i].date
                                  /\ j < i})
    IN  [k \in 1..Len(samples) |->
            samples[CHOOSE i \in 1..Len(samples) : rank(i) = k]]

\* The sums behind np.polyfit(dates, prices, 1) and the R-squared of lines
\* 145-158, over x = days since the first sample and y = price:
\* slope = slope_num / slope_den, ss_tot = ss_tot_n / n,
\* 1 - ss_res / ss_tot = slope_num^2 / (slope_den * ss_tot_n).
LineFit(price_data) ==
    LET n == Len(price_data)
        I == 1..n
        x == [i \in I |-> price_data[i].date - price_data[1].date]
        y == [i \in I |-> price_data[i].price]
        Sx == SumOver(x, I)
        Sy == SumOver(y, I)
        Sxx == SumOver([i \in I |-> x[i] * x[i]], I)
        Sxy == SumOver([i \in I |-> x[i] * y[i]], I)
        Syy == SumOver([i \in I |-> y[i] * y[i]], I)
    IN  [n |-> n, sum |-> Sy,
         slope_num |-> n * Sxy - Sx * Sy,
         slope_den |-> n * Sxx - Sx * Sx,
         ss_tot_n |-> n * Syy - Sy * Sy]

\* Lines 150-151.
TrendOf(fit) ==
    IF 100 * fit.slope_num > fit.slope_den THEN "increasing"
    ELSE IF 100 * fit.slope_num < 0 - fit.slope_den THEN "decreasing"
    ELSE "stable"

\* Lines 155-158.
RSquared(fit) ==
    IF fit.ss_tot_n = 0 THEN Zero
    ELSE Fraction(fit.slope_num * fit.slope_num,
                  fit.slope_den * fit.ss_tot_n)

\* Line 141 with `< 1` for `< 2`.
TooFewSamplesOffByOne(n) == n < 1

\* Line 141.
TooFewSamples(n) == n < 2

\* analyze_historical_prices, lines 100-173.  readFails: the listing query
\* raises.  polyfitEnds: what np.polyfit does when every sample is of the
\* first sample's day, where it scales the x column by its zero norm and hands
\* nan to lstsq: "LinAlgError" (raised) or "nan" (nan coefficients).  fit tells
\* whether np.polyfit was called.
analyze_historical_prices(listings, readFails, polyfitEnds) ==
    IF readFails
    THEN [outcome |-> "raised", raised_by |-> "query", fit |-> FALSE]
    ELSE IF listings = << >>
    THEN [outcome |-> "returned", fit |-> FALSE,
          trend |-> "insufficient_data", confidence |-> Zero]
    ELSE
      LET price_data == SortByDate(CollectSamples(listings))
          f == LineFit(price_data)
          prices == {price_data[i].price : i \in 1..Len(price_data)}
          rest == [average_price |-> Fraction(f.sum, f.n),
                   price_range |-> [min |-> SetMin(prices),
                                    max |-> SetMax(prices)],
                   data_points |-> f.n]
          Return(fit, trend, confidence) ==
              [outcome |-> "returned", fit |-> fit, trend |-> trend,
               confidence |-> confidence,
               average_price |-> rest.average_price,
               price_range |-> rest.price_range,
               data_points |-> rest.data_points]
      IN  IF TooFewSamples(f.n)
          THEN Return(FALSE, "insufficient_data", Zero)
          ELSE IF f.slope_den = 0
          THEN IF polyfitEnds = "LinAlgError"
               THEN [outcome |-> "raised", raised_by |-> "polyfit",
                     fit |-> TRUE]
               ELSE Return(TRUE, "stable",
                           IF f.ss_tot_n = 0 THEN Zero ELSE NaN)
          ELSE Return(TRUE, TrendOf(f), RSquared(f))

\* timedelta(days=365), line 187.
YearDays == 365

\* Items of the category, and the ages in days of their orders.
Items == {"I1", "I2"}

Ages == {30, YearDays, 400}

\* Calendar months of the order tables.
ModelMonths == {1, 2, 3, 4, 6, 9, 11, 12}

\* The orders of the category as groups: n orders of one item with the same
\* status, age and calendar month.
OrdersOfTable(table) ==
    {[item |-> "I1", status |-> "completed", age |-> 30, month |-> m,
      n |-> table[m]] : m \in {k \in DOMAIN table : table[k] > 0}}

SingleOrders ==
    [item : Items, status : {"completed", "pending"}, age : Ages,
     month : {1, 6}, n : {1}]

RECURSIVE SumCounts(_)
SumCounts(orders) ==
    IF orders = {} THEN 0
    ELSE LET o == CHOOSE x \in orders : TRUE
         IN  o.n + SumCounts(orders \ {o})

\* The query of lines 189-213: the items with some order created since
\* one_year_ago, each with all the orders of its listings.
SelectedItems(orders) == {o.item : o \in {x \in orders : x.age <= YearDays}}

\* Lines 221-227.
monthly_orders(orders) ==
    LET counted == {o \in orders : /\ o.item \in SelectedItems(orders)
                                   /\ o.status = "completed"}
    IN  [m \in {o.month : o \in counted} |->
            SumCounts({o \in counted : o.month = m})]

\* Lines 237-241: the months whose count is above the average.
PeakMonths(counts) ==
    LET months == DOMAIN counts
        total == SumOver(counts, months)
    IN  {m \in months : counts[m] * Cardinality(months) > total}

\* Lines 249-250: the differences of consecutive sorted peak months.
Gaps(peak_months) ==
    {q - p : <<p, q>> \in
        {pq \in peak_months \X peak_months :
            /\ pq[1] < pq[2]
            /\ ~\E r \in peak_months : pq[1] < r /\ r < pq[2]}}

\* Lines 252-257 with `>= 4` for `> 4`.
SeasonalPatternFromFour(peak_months) ==
    IF Cardinality(peak_months) <= 2 THEN "minimal_seasonality"
    ELSE IF SetMax(Gaps(peak_months)) >= 4 THEN "multi_season"
    ELSE "single_season"

\* Lines 252-257.
SeasonalPattern(peak_months) ==
    IF Cardinality(peak_months) <= 2 THEN "minimal_seasonality"
    ELSE IF SetMax(Gaps(peak_months)) > 4 THEN "multi_season"
    ELSE "single_season"

\* Lines 260-262: min(months / 12 * 0.7 + (max / avg - 1) * 0.3, 1.0), which
\* is (7 L T + 36 (max L - T)) / (120 T) for L months and T orders.
SeasonalConfidence(counts) ==
    LET months == DOMAIN counts
        L == Cardinality(months)
        T == SumOver(counts, months)
        most == SetMax({counts[m] : m \in months})
        num == 7 * L * T + 36 * (most * L - T)
    IN  IF num > 120 * T THEN One ELSE Fraction(num, 120 * T)

\* predict_seasonal_demand, lines 185-273.  readFails: the item query raises.
predict_seasonal_demand(orders, readFails) ==
    LET counts == monthly_orders(orders)
        insufficient == [outcome |-> "returned",
                         pattern |-> "insufficient_data",
                         peak_months |-> {}, confidence |-> Zero]
    IN  IF readFails THEN [outcome |-> "raised", raised_by |-> "query"]
        ELSE IF SelectedItems(orders) = {} THEN insufficient
        ELSE IF DOMAIN counts = {} THEN insufficient
        ELSE IF Cardinality(DOMAIN counts) < 6
        THEN [outcome |-> "returned", pattern |-> "insufficient_data",
              peak_months |-> PeakMonths(counts),
              monthly_distribution |-> counts, confidence |-> Zero]
        ELSE [outcome |-> "returned",
              pattern |-> SeasonalPattern(PeakMonths(counts)),
              peak_months |-> PeakMonths(counts),
              monthly_distribution |-> counts,
              confidence |-> SeasonalConfidence(counts)]

\* --------------------------------------------------- the marketplace weight

\* The default time to sell, one week in hours, lines 104 and 108 of
\* cross_platform_sync.py.
WeekHours == 168

\* Hours from the creation of the listing to the completion of the order,
\* (order.completedAt - listing.createdAt).total_seconds() / 3600, lines 93-95.
SellHours == {-252, 0 - WeekHours, -84, 0, WeekHours, 504}

\* The orders of a listing as the weight computation sees them.
HistoryOrders ==
    [status : {"completed"}, hours : SellHours]
    \cup [status : {"cancelled", "pending"}, hours : {0}]

\* The listings of a marketplace that have orders (lines 56-66): none, one or
\* two, each listing given by its orders.
OrderHistories ==
    SeqsUpTo({q \in SeqsUpTo(HistoryOrders, MaxHistory) : q # << >>}, 2)

\* Lines 74-96: total_orders, successful_orders and total_time over the
\* listings.
RECURSIVE HistoryTotals(_)
HistoryTotals(listings) ==
    IF listings = << >>
    THEN [total_orders |-> 0, successful_orders |-> 0, total_time |-> 0]
    ELSE LET orders == Head(listings)
             I == 1..Len(orders)
             rest == HistoryTotals(Tail(listings))
             done == {i \in I : orders[i].status = "completed"}
         IN  [total_orders |-> rest.total_orders +
                  Cardinality({i \in I : orders[i].status
                                           \in {"completed", "cancelled"}}),
              successful_orders |-> rest.successful_orders + Cardinality(done),
              total_time |-> rest.total_time +
                  SumOver([i \in I |-> orders[i].hours], done)]

\* A fraction with a positive denominator.
Positive(f) == IF f.den < 0 THEN Fraction(0 - f.num, 0 - f.den) ELSE f

\* max(0.1, weight), line 112.
AtLeastTenth(f) == IF 10 * f.num < f.den THEN Fraction(1, 10) ELSE f

\* The weight of one marketplace, lines 56-113.  readFails: the listing query
\* raises.  With success_rate = sn / sd and time_factor = tn / td the weight
\* success_rate * 0.7 + time_factor * 0.3 is
\* (7 sn td + 3 tn sd) / (10 sd td); avg_time + 168 = 0 is a division by zero.
marketplace_weight(listings, readFails) ==
    IF readFails THEN [outcome |-> "raised", raised_by |-> "query"]
    ELSE IF listings = << >>
    THEN [outcome |-> "returned", weight |-> One]
    ELSE
      LET h == HistoryTotals(listings)
          sn == IF h.total_orders > 0 THEN h.successful_orders ELSE 1
          sd == IF h.total_orders > 0 THEN h.total_orders ELSE 2
          tn == IF h.successful_orders > 0
                THEN WeekHours * h.successful_orders ELSE WeekHours
          td == IF h.successful_orders > 0
                THEN h.total_time + WeekHours * h.successful_orders
                ELSE 2 * WeekHours
      IN  IF td = 0
          THEN [outcome |-> "raised", raised_by |-> "ZeroDivisionError"]
          ELSE [outcome |-> "returned",
                weight |-> AtLeastTenth(Positive(
                    Fraction(7 * sn * td + 3 * tn * sd, 10 * sd * td)))]

\* ------------------------------------------------------ competitive pricing

RECURSIVE GCD(_, _)
GCD(a, b) == IF b = 0 THEN a ELSE GCD(b, a % b)

\* A fraction of naturals in lowest terms.
Reduced(f) ==
    LET g == GCD(f.num, f.den) IN Fraction(f.num \div g, f.den \div g)

\* a < b for fractions with positive denominators.
FracLess(a, b) == a.num * b.den < b.num * a.den

Repeat(p, n) == [i \in 1..n |-> p]

PricingMarketplaces == {"ebay", "amazon", "etsy"}

\* The 'prices' list of a competitorPrices value.
PriceLists ==
    {<< >>, <<100>>, <<110>>, <<120, 90>>,
     Repeat(100, 10), Repeat(102, 10)}

\* The market research of a listing: nothing recorded (no research record, or
\* one without competitorPrices), or one record with a price list, which may
\* be empty.
Research ==
    {[recorded |-> FALSE, prices |-> << >>]}
    \cup {[recorded |-> TRUE, prices |-> q] : q \in PriceLists}

PricedListings == [marketplace : PricingMarketplaces, research : Research]

\* What the item query of lines 287-296 finds: no item, or the item's
\* listings with their market research.
PricingItems ==
    {[found |-> FALSE, listings |-> << >>]}
    \cup {[found |-> TRUE, listings |-> ls] :
            ls \in SeqsUpTo(PricedListings, MaxPricedListings)}

\* Lines 306-312: the keys of marketplace_prices.  A record with an empty
\* price list creates the key as well.
RecordedMarketplaces(listings) ==
    {listings[i].marketplace :
        i \in {j \in 1..Len(listings) : listings[j].research.recorded}}

\* Lines 306-312: the prices collected for marketplace m.
RECURSIVE MarketplacePrices(_, _)
MarketplacePrices(listings, m) ==
    IF listings = << >> THEN << >>
    ELSE (IF Head(listings).marketplace = m /\ Head(listings).research.recorded
          THEN Head(listings).research.prices ELSE << >>)
         \o MarketplacePrices(Tail(listings), m)

\* sorted(prices)[len(prices) // 2]
Median(prices) ==
    LET I == 1..Len(prices)
        half == Len(prices) \div 2
    IN  CHOOSE v \in {prices[i] : i \in I} :
            /\ Cardinality({i \in I : prices[i] < v}) <= half
            /\ Cardinality({i \in I : prices[i] <= v}) > half

\* Lines 327-335.
PricePoint(prices) ==
    LET I == 1..Len(prices)
        values == {prices[i] : i \in I}
    IN  [average |-> Reduced(Fraction(SumOver(prices, I), Len(prices))),
         median |-> Median(prices),
         min |-> SetMin(values),
         max |-> SetMax(values),
         sample_size |-> Len(prices)]

\* Line 345, with <= for <.
CloseMarketsInclusive(lowest_avg, highest_avg) ==
    10 * (highest_avg.num * lowest_avg.den - lowest_avg.num * highest_avg.den)
        <= lowest_avg.num * highest_avg.den

\* Line 345: highest_avg - lowest_avg < lowest_avg * 0.1.
CloseMarkets(lowest_avg, highest_avg) ==
    10 * (highest_avg.num * lowest_avg.den - lowest_avg.num * highest_avg.den)
        < lowest_avg.num * highest_avg.den

InsufficientPricing ==
    [outcome |-> "returned", recommendation |-> "insufficient_data",
     price_points |-> EmptyMap, confidence |-> Zero]

\* analyze_competitive_pricing, lines 275-376.  readFails: the item query
\* raises.
analyze_competitive_pricing(item, readFails) ==
    IF readFails THEN [outcome |-> "raised", raised_by |-> "query"]
    ELSE IF ~item.found THEN InsufficientPricing
    ELSE IF RecordedMarketplaces(item.listings) = {} THEN InsufficientPricing
    ELSE
      LET price_points ==
              [m \in {k \in RecordedMarketplaces(item.listings) :
                        MarketplacePrices(item.listings, k) # << >>}
                  |-> PricePoint(MarketplacePrices(item.listings, m))]
          ms == DOMAIN price_points
          averages == {price_points[m].average : m \in ms}
          lowest_avg == CHOOSE a \in averages :
                            \A b \in averages : ~FracLess(b, a)
          highest_avg == CHOOSE a \in averages :
                            \A b \in averages : ~FracLess(a, b)
          samples == SumOver([m \in ms |-> price_points[m].sample_size], ms)
          market_spread ==
              [min |-> SetMin({price_points[m].min : m \in ms}),
               max |-> SetMax({price_points[m].max : m \in ms})]
      IN  IF Cardinality(ms) >= 2
          THEN [outcome |-> "returned",
                recommendation |->
                    IF CloseMarkets(lowest_avg, highest_avg)
                    THEN "match_market" ELSE "competitive_advantage",
                target_price |->
                    IF CloseMarkets(lowest_avg, highest_avg)
                    THEN lowest_avg
                    ELSE Reduced(Fraction(19 * highest_avg.num,
                                          20 * highest_avg.den)),
                price_points |-> price_points,
                market_spread |-> market_spread,
                confidence |-> IF samples >= 20 THEN One
                               ELSE Reduced(Fraction(samples, 20))]
          ELSE IF ms = {}
          THEN [outcome |-> "raised", raised_by |-> "StopIteration"]
          ELSE [outcome |-> "returned",
                recommendation |-> "single_marketplace",
                target_price |-> price_points[CHOOSE m \in ms : TRUE].average,
                price_points |-> price_points,
                market_spread |-> market_spread,
                confidence |-> Fraction(1, 2)]

\* ------------------------------------------------------- market research

\* The items handed to run_market_research.
ResearchItems == {"I1", "I2", "I3"}

\* How the processing of one item ends (lines 57-75): without error, or with
\* an error of exceptions.py raised by fetch_market_data, parse_response or
\* get_price_history.
ItemOutcomes ==
    {"ok", "AuthenticationError", "MarketDataError", "ParseError",
     "HistoricalDataError"}

\* The except clause of line 77: except (MarketDataError, AuthenticationError).
CaughtPerItem(outcome) ==
    outcome \in {"MarketDataError", "AuthenticationError"}

\* The entry of an item in results, lines 71-75 and 79-82.
ResultEntry(outcome) ==
    IF outcome = "ok" THEN [error |-> "none"] ELSE [error |-> outcome]

\* "error" not in market_data, line 437.
HasNoError(entry) == entry.error = "none"

\* f extended by the key k with value v.
Put(f, k, v) == [x \in DOMAIN f \cup {k} |-> IF x = k THEN v ELSE f[x]]

\* Before an analysis has run.
NoAnalysis == [outcome |-> "none"]

\* ------------------------------------------------------------------- state

VARIABLES
    a_pc,        \* allocate_inventory call: "call" before, "done" after
    a_stock,     \* its total_stock
    a_ms,        \* its marketplaces list
    a_weight,    \* the weight the history gives each marketplace
    a_fails,     \* whether the try block raises
    a_result,    \* what the call produced
    op,          \* the orchestrator operation this run invokes
    marketplace_clients,  \* the marketplaces with a registered client
    db_listing,  \* listing storage: marketplace, status, quantity per listing
    calls,       \* per listing, the adapter calls made, in order
    s_pc,        \* sync_inventory_levels: "idle", "gather", "returned", "raised"
    s_stock,     \* its total_stock
    s_active,    \* the active listings it read (line 170)
    s_alloc,     \* allocations
    s_path,      \* the allocator path that produced them
    s_results,   \* results, by listing id
    s_status,    \* 'status' of the returned dictionary
    task,        \* per listing, the state of its update task
    written_by,  \* per listing record, the tasks that wrote it
    c_pc,        \* create_or_update_listing: "idle", "loop", "returned", "raised"
    c_given,     \* the marketplaces argument it was given
    c_targets,   \* target_marketplaces
    c_done,      \* how many of them the loop has processed
    c_results,   \* results, by marketplace
    c_calls,     \* per marketplace, the create_listing calls made
    c_outcomes,  \* per marketplace, how its create_listing call ended
    r_pc,        \* concurrent sync_inventory_levels calls: per call, as s_pc
    r_stock,     \* per call, its total_stock
    r_active,    \* per call, the active listings it read
    r_alloc,     \* per call, its allocations
    r_task,      \* per call and listing, the state of the update task
    pushed,      \* per listing, the last operation its adapter accepted
    t_pc,        \* analyze_historical_prices call: "call" before, "done" after
    t_listings,  \* the item's listings, each with its orders
    t_result,    \* what the call produced
    d_pc,        \* predict_seasonal_demand call: "call" before, "done" after
    d_orders,    \* the orders of the category's items
    d_result,    \* what the call produced
    item,        \* the item's master record: stockQuantity, lastStockUpdate set
    h_pc,        \* update_stock_level: "idle", then "success" or "error"
    w_pc,        \* the weight computation: "call" before, "done" after
    w_history,   \* the orders of the marketplace's listings that have orders
    w_result,    \* the weight, or the exception
    p_pc,        \* analyze_competitive_pricing call: "call" before, "done" after
    p_item,      \* the item's listings with their market research
    p_result,    \* what the call produced
    m_pc,        \* run_market_research: "call", "loop", "recording", then
                 \* "finished" or "raised"
    m_items,     \* item_ids
    m_done,      \* how many of them the loop has processed
    m_results,   \* results, by item id
    m_recorded,  \* the items run_market_research updated analytics for
    m_seen,      \* the entries the loop of run_market_research has visited
    m_raised_by  \* what made run_market_research raise, "none" so far

allocVars == <<a_pc, a_stock, a_ms, a_weight, a_fails, a_result>>
syncVars  == <<db_listing, calls, s_pc, s_stock, s_active, s_alloc, s_path,
               s_results, s_status, task, written_by>>
createVars == <<c_pc, c_given, c_targets, c_done, c_results, c_calls,
                c_outcomes>>
raceVars  == <<r_pc, r_stock, r_active, r_alloc, r_task, pushed>>

analyticsVars == <<t_pc, t_listings, t_result, d_pc, d_orders, d_result>>

routerVars == <<item, h_pc>>
researchVars == <<w_pc, w_history, w_result, p_pc, p_item, p_result,
                  m_pc, m_items, m_done, m_results, m_recorded,
                   m_seen, m_raised_by>>

vars == <<allocVars, op, marketplace_clients, syncVars, createVars, raceVars,
          analyticsVars, routerVars, researchVars>>

NoResult == [outcome |-> "none", path |-> "none", value |-> EmptyMap,
             base |-> EmptyMap, remaining |-> 0]

AllocIdle ==
    /\ a_pc = "idle" /\ a_stock = 0 /\ a_ms = << >> /\ a_weight = EmptyMap
    /\ a_fails = FALSE /\ a_result = NoResult

SyncIdle ==
    /\ calls = [l \in Listings |-> << >>]
    /\ s_pc = "idle" /\ s_stock = 0 /\ s_active = {} /\ s_alloc = EmptyMap
    /\ s_path = "none" /\ s_results = EmptyMap /\ s_status = "none"
    /\ task = [l \in Listings |-> "none"]
    /\ written_by = [l \in Listings |-> {}]

CreateIdle ==
    /\ c_pc = "idle" /\ c_given = << >> /\ c_targets = << >> /\ c_done = 0
    /\ c_results = EmptyMap
    /\ c_calls = [m \in Channels |-> 0]
    /\ c_outcomes = [m \in Channels |-> "none"]

\* Two calls of sync_inventory_levels for the same item.
Invocations == {1, 2}

NothingPushed == [op |-> "none", quantity |-> 0]

RaceIdle ==
    /\ r_pc = [i \in Invocations |-> "idle"]
    /\ r_stock = [i \in Invocations |-> 0]
    /\ r_active = [i \in Invocations |-> {}]
    /\ r_alloc = [i \in Invocations |-> EmptyMap]
    /\ r_task = [i \in Invocations |-> [l \in Listings |-> "none"]]
    /\ pushed = [l \in Listings |-> NothingPushed]

AnalyticsIdle ==
    /\ t_pc = "idle" /\ t_listings = << >> /\ t_result = NoAnalysis
    /\ d_pc = "idle" /\ d_orders = {} /\ d_result = NoAnalysis

\* The item before update_stock_level has written its stock.
ItemAsFound == [stockQuantity |-> 0, updated |-> FALSE]

RouterIdle == item = ItemAsFound /\ h_pc = "idle"

ResearchIdle ==
    /\ w_pc = "idle" /\ w_history = << >> /\ w_result = NoAnalysis
    /\ p_pc = "idle" /\ p_item = << >> /\ p_result = NoAnalysis
    /\ m_pc = "idle" /\ m_items = << >> /\ m_done = 0
    /\ m_results = EmptyMap /\ m_recorded = {}
    /\ m_seen = 0 /\ m_raised_by = "none"

DefaultListings ==
    [l \in Listings |-> [marketplace |-> "ebay", status |-> "active",
                         quantity |-> 0]]

\* ------------------------------------------- allocate_inventory on its own

AllocInit ==
    /\ a_pc = "call"
    /\ a_stock \in -1..MaxStock
    /\ a_ms \in DistinctSeqs(Channels)
    /\ a_weight \in [Range(a_ms) -> Weights]
    /\ a_fails \in BOOLEAN
    /\ a_result = NoResult
    /\ op = "allocate"
    /\ marketplace_clients = {"ebay"}
    /\ db_listing = DefaultListings
    /\ SyncIdle /\ CreateIdle /\ RaceIdle /\ AnalyticsIdle
    /\ RouterIdle /\ ResearchIdle

AllocateInventory ==
    /\ a_pc = "call"
    /\ a_result' = allocate_inventory(a_stock, a_ms, a_weight, a_fails)
    /\ a_pc' = "done"
    /\ UNCHANGED <<a_stock, a_ms, a_weight, a_fails, op, marketplace_clients,
                   syncVars, createVars, raceVars,
                   analyticsVars, routerVars,
                   researchVars>>

AllocNext == AllocateInventory

AllocSpec == AllocInit /\ [][AllocNext]_vars

\* ------------------------------------------------- sync_inventory_levels

\* sync_inventory_levels up to the gather, lines 166-228.  readFails: the
\* listing query raises; order: the order list(set(...)) gives the active
\* marketplaces; w, lookupFails: what allocate_inventory meets.
SyncCall(total_stock, readFails) ==
    /\ op = "sync" /\ s_pc = "idle"
    /\ s_stock' = total_stock
    /\ LET listings == {l \in Listings : db_listing[l].status = "active"}
           active_marketplaces == {db_listing[l].marketplace : l \in listings}
       IN  IF readFails
           THEN /\ s_pc' = "raised"
                /\ UNCHANGED <<s_active, s_alloc, s_path, s_results,
                               s_status, task>>
           ELSE IF listings = {}
           THEN /\ s_pc' = "returned"
                /\ s_status' = "no_active_listings"
                /\ UNCHANGED <<s_active, s_alloc, s_path, s_results, task>>
           ELSE \E order \in Orderings(active_marketplaces) :
                \E w \in [active_marketplaces -> Weights] :
                \E lookupFails \in BOOLEAN :
                  LET r == allocate_inventory(total_stock, order, w,
                                              lookupFails)
                  IN  IF r.outcome = "raised"
                      THEN /\ s_pc' = "raised"
                           /\ UNCHANGED <<s_active, s_alloc, s_path,
                                          s_results, s_status, task>>
                      ELSE /\ s_active' = listings
                           /\ s_alloc' = r.value
                           /\ s_path' = r.path
                           /\ s_results' =
                                [l \in listings |->
                                   ScheduledOp(
                                     r.value[db_listing[l].marketplace]).result]
                           /\ task' = [l \in Listings |->
                                         IF l \in listings THEN "scheduled"
                                         ELSE "none"]
                           /\ s_pc' = "gather"
                           /\ UNCHANGED s_status
    /\ UNCHANGED <<allocVars, op, marketplace_clients, db_listing, calls,
                   written_by, createVars, raceVars,
                   analyticsVars, routerVars,
                   researchVars>>

\* update_listing_stock / delist_item up to the end of the adapter call,
\* lines 319-321 and 354-356 (and the raise of 333 / 368 without a client).
TaskAdapterCall(l, ok) ==
    /\ op = "sync" /\ s_pc \in {"gather", "raised"}
    /\ task[l] = "scheduled"
    /\ LET marketplace == db_listing[l].marketplace
           sched == ScheduledOp(s_alloc[marketplace])
       IN  IF marketplace \in marketplace_clients
           THEN /\ calls' = [calls EXCEPT ![l] =
                    Append(@, [op |-> sched.op, quantity |-> sched.quantity,
                               client |-> marketplace, ok |-> ok])]
                /\ task' = [task EXCEPT ![l] = AfterAdapterCall(ok)]
           ELSE /\ task' = [task EXCEPT ![l] = "failed"]
                /\ UNCHANGED calls
    /\ UNCHANGED <<allocVars, op, marketplace_clients, db_listing, s_pc,
                   s_stock, s_active, s_alloc, s_path, s_results, s_status,
                   written_by, createVars, raceVars,
                   analyticsVars, routerVars,
                   researchVars>>

\* The write-back, lines 323-331 and 358-366: awaiting the db handle or the
\* update may raise (ok = FALSE), which ends the task with that exception.
TaskWriteBack(l, ok) ==
    /\ op = "sync" /\ s_pc \in {"gather", "raised"}
    /\ task[l] = "called"
    /\ LET sched == ScheduledOp(s_alloc[db_listing[l].marketplace])
       IN  IF ok
           THEN /\ db_listing' =
                      [k \in Listings |->
                         IF k \in WriteTargets(l, db_listing)
                         THEN WrittenRecord(db_listing[k], sched)
                         ELSE db_listing[k]]
                /\ written_by' =
                      [k \in Listings |->
                         IF k \in WriteTargets(l, db_listing) THEN written_by[k] \cup {l}
                         ELSE written_by[k]]
                /\ task' = [task EXCEPT ![l] = "done"]
           ELSE /\ task' = [task EXCEPT ![l] = "failed"]
                /\ UNCHANGED <<db_listing, written_by>>
    /\ UNCHANGED <<allocVars, op, marketplace_clients, calls, s_pc, s_stock,
                   s_active, s_alloc, s_path, s_results, s_status, createVars,
                   raceVars,
                   analyticsVars, routerVars,
                   researchVars>>

\* await asyncio.gather(*update_tasks), line 228, when a task has raised: the
\* exception reaches the caller through lines 238-240; the other tasks are
\* not cancelled.
GatherRaise ==
    /\ op = "sync" /\ s_pc = "gather"
    /\ \E l \in s_active : task[l] = "failed"
    /\ s_pc' = "raised"
    /\ UNCHANGED <<allocVars, op, marketplace_clients, db_listing, calls,
                   s_stock, s_active, s_alloc, s_path, s_results, s_status,
                   task, written_by, createVars, raceVars,
                   analyticsVars, routerVars,
                   researchVars>>

\* The gather completes and lines 230-236 return the aggregate.
GatherReturn ==
    /\ op = "sync" /\ s_pc = "gather"
    /\ \A l \in s_active : task[l] = "done"
    /\ s_pc' = "returned"
    /\ s_status' = "success"
    /\ UNCHANGED <<allocVars, op, marketplace_clients, db_listing, calls,
                   s_stock, s_active, s_alloc, s_path, s_results, task,
                   written_by, createVars, raceVars,
                   analyticsVars, routerVars,
                   researchVars>>

\* ----------------------------------------------- create_or_update_listing

\* Lines 259-260.  marketplaces: the list passed in, each marketplace named
\* once; an empty list (or None) stands for every registered client.
CreateCall(marketplaces) ==
    /\ op = "create" /\ c_pc = "idle"
    /\ IF marketplaces = << >>
       THEN c_targets' \in Orderings(marketplace_clients)
       ELSE c_targets' = marketplaces
    /\ c_given' = marketplaces
    /\ c_pc' = "loop"
    /\ UNCHANGED <<allocVars, op, marketplace_clients, syncVars, c_done,
                   c_results, c_calls, c_outcomes, raceVars,
                   analyticsVars, routerVars,
                   researchVars>>

\* One iteration of the loop, lines 262-297.  outcome: how create_listing
\* ends, "ok", "marketplace" (MarketplaceError) or "unexpected"; without a
\* client nothing is called and the step is taken once, under "ok".
CreateAttempt(outcome) ==
    /\ op = "create" /\ c_pc = "loop"
    /\ c_done < Len(c_targets)
    /\ LET marketplace == c_targets[c_done + 1]
           registered == marketplace \in marketplace_clients
       IN  /\ IF registered
              THEN /\ c_calls' = [c_calls EXCEPT ![marketplace] = @ + 1]
                   /\ c_outcomes' = [c_outcomes EXCEPT ![marketplace] = outcome]
                   /\ c_pc' = AfterCreateAttempt(outcome)
              ELSE /\ outcome = "ok"
                   /\ c_pc' = "loop"
                   /\ UNCHANGED <<c_calls, c_outcomes>>
           /\ c_results' =
                [m \in DOMAIN c_results \cup {marketplace} |->
                    IF m = marketplace THEN CreateEntry(registered, outcome)
                    ELSE c_results[m]]
    /\ c_done' = c_done + 1
    /\ UNCHANGED <<allocVars, op, marketplace_clients, syncVars, c_given,
                   c_targets, raceVars,
                   analyticsVars, routerVars,
                   researchVars>>

\* Lines 299-303.
CreateReturn ==
    /\ op = "create" /\ c_pc = "loop"
    /\ c_done = Len(c_targets)
    /\ c_pc' = "returned"
    /\ UNCHANGED <<allocVars, op, marketplace_clients, syncVars, c_given,
                   c_targets, c_done, c_results, c_calls, c_outcomes, raceVars,
                   analyticsVars, routerVars,
                   researchVars>>

\* ------------------------------------------------------ update_stock_level

\* Line 54 of routers/inventory.py running whatever sync_inventory_levels did.
MasterUpdatedRegardless(sync_pc, updateFails) == ~updateFails

\* routers/inventory.py, lines 46-59: the master record is written when
\* sync_inventory_levels returned and the update itself does not raise.
MasterUpdated(sync_pc, updateFails) == sync_pc = "returned" /\ ~updateFails

\* update_stock_level of routers/inventory.py from the end of its await of
\* sync_inventory_levels (line 46, the call modelled by SyncCall) on: lines
\* 52-66 when the call returned, lines 68-72 (HTTP 500) when it or the
\* master update raised.
UpdateStockLevelEnd(updateFails) ==
    /\ op = "sync" /\ h_pc = "idle"
    /\ s_pc \in {"returned", "raised"}
    /\ IF MasterUpdated(s_pc, updateFails)
       THEN /\ item' = [stockQuantity |-> s_stock, updated |-> TRUE]
            /\ h_pc' = "success"
       ELSE /\ item' = item
            /\ h_pc' = "error"
    /\ UNCHANGED <<allocVars, op, marketplace_clients, syncVars, createVars,
                   raceVars, analyticsVars, researchVars>>

\* ------------------------------------------------------- the orchestrator

Init ==
    /\ AllocIdle
    /\ op \in {"sync", "create"}
    /\ marketplace_clients \in Registries
    /\ IF op = "sync"
       THEN db_listing \in [Listings ->
                [marketplace : ListingChannels,
                 status : {"active", "ended"}, quantity : {0}]]
       ELSE db_listing = DefaultListings
    /\ SyncIdle /\ CreateIdle /\ RaceIdle /\ AnalyticsIdle
    /\ RouterIdle /\ ResearchIdle

Next ==
    \/ \E total_stock \in -1..MaxSyncStock, readFails \in BOOLEAN :
          SyncCall(total_stock, readFails)
    \/ \E l \in Listings, ok \in BOOLEAN : TaskAdapterCall(l, ok)
    \/ \E l \in Listings, ok \in BOOLEAN : TaskWriteBack(l, ok)
    \/ GatherRaise
    \/ GatherReturn
    \/ \E updateFails \in BOOLEAN : UpdateStockLevelEnd(updateFails)
    \/ \E marketplaces \in DistinctSeqs(Channels) : CreateCall(marketplaces)
    \/ \E outcome \in {"ok", "marketplace", "unexpected"} :
          CreateAttempt(outcome)
    \/ CreateReturn

Spec == Init /\ [][Next]_vars

\* ------------------------- two concurrent calls of sync_inventory_levels

\* What a call of sync_inventory_levels leaves alone apart from the listing
\* storage and its own frame.
raceFrame == <<allocVars, op, marketplace_clients, calls, s_pc, s_stock,
               s_active, s_alloc, s_path, s_results, s_status, task,
               written_by, createVars, analyticsVars, routerVars,
                   researchVars>>

\* Call i up to its gather, lines 166-228, as SyncCall.
RaceSyncCall(i, total_stock, readFails) ==
    /\ op = "race" /\ r_pc[i] = "idle"
    /\ r_stock' = [r_stock EXCEPT ![i] = total_stock]
    /\ LET listings == {l \in Listings : db_listing[l].status = "active"}
           active_marketplaces == {db_listing[l].marketplace : l \in listings}
       IN  IF readFails
           THEN /\ r_pc' = [r_pc EXCEPT ![i] = "raised"]
                /\ UNCHANGED <<r_active, r_alloc, r_task>>
           ELSE IF listings = {}
           THEN /\ r_pc' = [r_pc EXCEPT ![i] = "returned"]
                /\ UNCHANGED <<r_active, r_alloc, r_task>>
           ELSE \E order \in Orderings(active_marketplaces) :
                \E w \in [active_marketplaces -> Weights] :
                \E lookupFails \in BOOLEAN :
                  LET r == allocate_inventory(total_stock, order, w,
                                              lookupFails)
                  IN  IF r.outcome = "raised"
                      THEN /\ r_pc' = [r_pc EXCEPT ![i] = "raised"]
                           /\ UNCHANGED <<r_active, r_alloc, r_task>>
                      ELSE /\ r_active' = [r_active EXCEPT ![i] = listings]
                           /\ r_alloc' = [r_alloc EXCEPT ![i] = r.value]
                           /\ r_task' = [r_task EXCEPT ![i] =
                                 [l \in Listings |->
                                    IF l \in listings THEN "scheduled"
                                    ELSE "none"]]
                           /\ r_pc' = [r_pc EXCEPT ![i] = "gather"]
    /\ UNCHANGED <<raceFrame, db_listing, pushed>>

\* The adapter call of call i's task for listing l, lines 319-321 and
\* 354-356; the adapter keeps what it accepted.
RaceTaskAdapterCall(i, l, ok) ==
    /\ op = "race" /\ r_pc[i] \in {"gather", "raised"}
    /\ r_task[i][l] = "scheduled"
    /\ LET marketplace == db_listing[l].marketplace
           sched == ScheduledOp(r_alloc[i][marketplace])
       IN  IF marketplace \in marketplace_clients
           THEN /\ pushed' = IF ok
                             THEN [pushed EXCEPT ![l] =
                                     [op |-> sched.op,
                                      quantity |-> sched.quantity]]
                             ELSE pushed
                /\ r_task' = [r_task EXCEPT ![i][l] = AfterAdapterCall(ok)]
           ELSE /\ r_task' = [r_task EXCEPT ![i][l] = "failed"]
                /\ UNCHANGED pushed
    /\ UNCHANGED <<raceFrame, db_listing, r_pc, r_stock, r_active, r_alloc>>

\* The write-back of call i's task for listing l, lines 323-331 and 358-366.
RaceTaskWriteBack(i, l, ok) ==
    /\ op = "race" /\ r_pc[i] \in {"gather", "raised"}
    /\ r_task[i][l] = "called"
    /\ LET sched == ScheduledOp(r_alloc[i][db_listing[l].marketplace])
       IN  IF ok
           THEN /\ db_listing' =
                      [k \in Listings |->
                         IF k \in WriteTargets(l, db_listing)
                         THEN WrittenRecord(db_listing[k], sched)
                         ELSE db_listing[k]]
                /\ r_task' = [r_task EXCEPT ![i][l] = "done"]
           ELSE /\ r_task' = [r_task EXCEPT ![i][l] = "failed"]
                /\ UNCHANGED db_listing
    /\ UNCHANGED <<raceFrame, r_pc, r_stock, r_active, r_alloc, pushed>>

\* Line 228 of call i when one of its tasks has raised.
RaceGatherRaise(i) ==
    /\ op = "race" /\ r_pc[i] = "gather"
    /\ \E l \in r_active[i] : r_task[i][l] = "failed"
    /\ r_pc' = [r_pc EXCEPT ![i] = "raised"]
    /\ UNCHANGED <<raceFrame, db_listing, r_stock, r_active, r_alloc, r_task,
                   pushed>>

\* Lines 228-236 of call i when all its tasks are done.
RaceGatherReturn(i) ==
    /\ op = "race" /\ r_pc[i] = "gather"
    /\ \A l \in r_active[i] : r_task[i][l] = "done"
    /\ r_pc' = [r_pc EXCEPT ![i] = "returned"]
    /\ UNCHANGED <<raceFrame, db_listing, r_stock, r_active, r_alloc, r_task,
                   pushed>>

\* Two listings of the item, active or ended, on either marketplace.
RaceInit ==
    /\ AllocIdle
    /\ op = "race"
    /\ marketplace_clients \in Registries
    /\ db_listing \in {f \in [Listings ->
                                [marketplace : ListingChannels,
                                 status : {"active", "ended"},
                                 quantity : {0}]] :
                           f["L3"] = [marketplace |-> "ebay",
                                      status |-> "ended", quantity |-> 0]}
    /\ SyncIdle /\ CreateIdle /\ RaceIdle /\ AnalyticsIdle
    /\ RouterIdle /\ ResearchIdle

RaceNext ==
    \/ \E i \in Invocations, total_stock \in 1..MaxRaceStock,
          readFails \in BOOLEAN : RaceSyncCall(i, total_stock, readFails)
    \/ \E i \in Invocations, l \in Listings, ok \in BOOLEAN :
          RaceTaskAdapterCall(i, l, ok)
    \/ \E i \in Invocations, l \in Listings, ok \in BOOLEAN :
          RaceTaskWriteBack(i, l, ok)
    \/ \E i \in Invocations : RaceGatherRaise(i)
    \/ \E i \in Invocations : RaceGatherReturn(i)

RaceSpec == RaceInit /\ [][RaceNext]_vars

\* ------------------------------------------------ analyze_historical_prices

TrendInit ==
    /\ AllocIdle
    /\ op = "trend"
    /\ marketplace_clients = {"ebay"}
    /\ db_listing = DefaultListings
    /\ SyncIdle /\ CreateIdle /\ RaceIdle /\ RouterIdle /\ ResearchIdle
    /\ t_pc = "call" /\ t_listings \in TrendInputs /\ t_result = NoAnalysis
    /\ d_pc = "idle" /\ d_orders = {} /\ d_result = NoAnalysis

AnalyzeHistoricalPrices(readFails, polyfitEnds) ==
    /\ op = "trend" /\ t_pc = "call"
    /\ t_result' = analyze_historical_prices(t_listings, readFails,
                                             polyfitEnds)
    /\ t_pc' = "done"
    /\ UNCHANGED <<allocVars, op, marketplace_clients, syncVars, createVars,
                   raceVars, t_listings, d_pc, d_orders, d_result,
                   routerVars, researchVars>>

TrendNext ==
    \E readFails \in BOOLEAN, polyfitEnds \in {"LinAlgError", "nan"} :
        AnalyzeHistoricalPrices(readFails, polyfitEnds)

TrendSpec == TrendInit /\ [][TrendNext]_vars

\* -------------------------------------------------- predict_seasonal_demand

\* The orders of the category: a table of recent completed orders per month,
\* or up to two single orders of any item, status and age.
SeasonInit ==
    /\ AllocIdle
    /\ op = "season"
    /\ marketplace_clients = {"ebay"}
    /\ db_listing = DefaultListings
    /\ SyncIdle /\ CreateIdle /\ RaceIdle /\ RouterIdle /\ ResearchIdle
    /\ t_pc = "idle" /\ t_listings = << >> /\ t_result = NoAnalysis
    /\ d_pc = "call"
    /\ d_orders \in
         {OrdersOfTable(table) : table \in [ModelMonths -> 0..MaxCount]}
         \cup {{ }} \cup {{o, x} : o, x \in SingleOrders}
    /\ d_result = NoAnalysis

PredictSeasonalDemand(readFails) ==
    /\ op = "season" /\ d_pc = "call"
    /\ d_result' = predict_seasonal_demand(d_orders, readFails)
    /\ d_pc' = "done"
    /\ UNCHANGED <<allocVars, op, marketplace_clients, syncVars, createVars,
                   raceVars, t_pc, t_listings, t_result, d_orders,
                   routerVars, researchVars>>

SeasonNext == \E readFails \in BOOLEAN : PredictSeasonalDemand(readFails)

SeasonSpec == SeasonInit /\ [][SeasonNext]_vars

\* ----------------------------------------- the weight of one marketplace

\* What every analysis specification leaves idle.
OthersIdle ==
    /\ AllocIdle
    /\ marketplace_clients = {"ebay"}
    /\ db_listing = DefaultListings
    /\ SyncIdle /\ CreateIdle /\ RaceIdle /\ AnalyticsIdle /\ RouterIdle

WeightInit ==
    /\ OthersIdle
    /\ op = "weight"
    /\ w_pc = "call" /\ w_history \in OrderHistories /\ w_result = NoAnalysis
    /\ p_pc = "idle" /\ p_item = << >> /\ p_result = NoAnalysis
    /\ m_pc = "idle" /\ m_items = << >> /\ m_done = 0
    /\ m_results = EmptyMap /\ m_recorded = {}
    /\ m_seen = 0 /\ m_raised_by = "none"

MarketplaceWeight(readFails) ==
    /\ op = "weight" /\ w_pc = "call"
    /\ w_result' = marketplace_weight(w_history, readFails)
    /\ w_pc' = "done"
    /\ UNCHANGED <<allocVars, op, marketplace_clients, syncVars, createVars,
                   raceVars, analyticsVars, routerVars, w_history,
                   p_pc, p_item, p_result,
                   m_pc, m_items, m_done, m_results, m_recorded,
                   m_seen, m_raised_by>>

WeightNext == \E readFails \in BOOLEAN : MarketplaceWeight(readFails)

WeightSpec == WeightInit /\ [][WeightNext]_vars

\* ----------------------------------------------------- claims: allocator

AllocDone == a_pc = "done"

NumChannels == Len(a_ms)

WeightSum == SumOver(a_weight, Range(a_ms))

\* The units a marketplace got beyond its base allocation.
Extra(m) == a_result.value[m] - a_result.base[m]

\* m is served before n: larger weight, or equal weight and earlier in the input.
ServedBefore(m, n) ==
    \/ a_weight[m] > a_weight[n]
    \/ /\ a_weight[m] = a_weight[n]
       /\ \E i, j \in 1..NumChannels : i < j /\ a_ms[i] = m /\ a_ms[j] = n

\* total_stock * weight / total_weight is an integer >= 1 for every marketplace.
SharesAreExact ==
    \A m \in Range(a_ms) :
        /\ (a_stock * a_weight[m]) % WeightSum = 0
        /\ (a_stock * a_weight[m]) \div WeightSum >= 1

\* C1: for every total_stock >= 0 and every non-empty list of distinct
\* marketplaces, the values of the returned map sum to total_stock, on the
\* weighted and on the fallback path.
C1_SumEqualsTotalStock ==
    (AllocDone /\ a_stock >= 0 /\ a_ms # << >>)
        => SumValues(a_result.value) = a_stock

\* C2: when the weighted path fails internally, the result is the even split:
\* total_stock // n each, one more for the first (total_stock mod n)
\* marketplaces of the input list, summing to total_stock.
C2_FallbackIsEvenSplit ==
    (AllocDone /\ a_fails /\ a_ms # << >>)
        => /\ a_result.outcome = "returned"
           /\ DOMAIN a_result.value = Range(a_ms)
           /\ \A i \in 1..NumChannels :
                a_result.value[a_ms[i]] =
                    (a_stock \div NumChannels) +
                    (IF i <= a_stock % NumChannels THEN 1 ELSE 0)
           /\ SumValues(a_result.value) = a_stock

C2_Witness ==
    /\ AllocDone /\ a_fails /\ NumChannels = 3 /\ a_stock = 7
    /\ a_result.path = "fallback"
    /\ a_result.value[a_ms[1]] = 3 /\ a_result.value[a_ms[3]] = 2

\* C3: allocate_inventory never raises: it returns the empty map for an empty
\* list and a map over the marketplaces otherwise, the fallback split when the
\* history lookup or the weight computation failed.
C3_NeverRaises ==
    AllocDone =>
        /\ a_result.outcome = "returned"
        /\ DOMAIN a_result.value = Range(a_ms)
        /\ (a_ms = << >>) => a_result.value = EmptyMap
        /\ (a_ms # << >> /\ a_fails) => a_result.path = "fallback"

C3_Witness ==
    /\ AllocDone /\ a_fails /\ a_ms # << >> /\ a_stock = -1
    /\ a_result.outcome = "returned"

\* C4: on the weighted path, whenever total_stock >= number of marketplaces,
\* every marketplace gets at least 1 unit and the sum equals total_stock.
C4_AtLeastOneAndSum ==
    (AllocDone /\ a_result.path = "weighted" /\ a_stock >= NumChannels)
        => /\ \A m \in Range(a_ms) : a_result.value[m] >= 1
           /\ SumValues(a_result.value) = a_stock

\* C5: the leftover units are handed out one at a time in descending weight
\* order, ties in the order of the input list: nobody is served a second unit
\* before everybody had a first, and a marketplace served later never has more
\* than one served earlier; 7 units over three equal weights give 3, 2, 2.
C5_RemainderByWeightThenInput ==
    (AllocDone /\ a_result.path = "weighted") =>
        /\ a_result.remaining <= 0 => a_result.value = a_result.base
        /\ a_result.remaining > 0 =>
            /\ SumOver([m \in Range(a_ms) |-> Extra(m)], Range(a_ms))
                   = a_result.remaining
            /\ \A m, n \in Range(a_ms) :
                   ServedBefore(m, n) =>
                       Extra(n) <= Extra(m) /\ Extra(m) <= Extra(n) + 1
        /\ ( /\ a_stock = 7 /\ NumChannels = 3
             /\ \A m, n \in Range(a_ms) : a_weight[m] = a_weight[n] )
           => /\ \A m \in Range(a_ms) : a_result.base[m] = 2
              /\ a_result.value[a_ms[1]] = 3
              /\ a_result.value[a_ms[2]] = 2
              /\ a_result.value[a_ms[3]] = 2

C5_Witness ==
    /\ AllocDone /\ a_result.path = "weighted" /\ a_result.remaining = 1
    /\ a_stock = 7 /\ NumChannels = 3
    /\ \A m, n \in Range(a_ms) : a_weight[m] = a_weight[n]
    /\ a_result.value[a_ms[1]] = 3

\* C6: when total_stock * weight / total_weight is an integer >= 1 for every
\* marketplace, the weighted allocation is exactly those shares and no
\* remainder unit is distributed.
C6_ExactSharesAreKept ==
    (AllocDone /\ a_result.path = "weighted" /\ SharesAreExact) =>
        /\ \A m \in Range(a_ms) :
              a_result.value[m] = (a_stock * a_weight[m]) \div WeightSum
        /\ a_result.remaining = 0

\* -------------------------------------------------- claims: orchestrator

SyncEnded == s_pc \in {"returned", "raised"}

TasksEnded == \A l \in s_active : task[l] \in {"done", "failed"}

AdapterRaised(l) == calls[l] # << >> /\ ~calls[l][Len(calls[l])].ok

AllocatedTo(l) == s_alloc[db_listing[l].marketplace]

\* The adapter call made for listing l is the one its allocation asks for, and
\* the recorded action is the one of that call.
CallMatchesAllocation(l) ==
    LET c == calls[l][1]
    IN  /\ c.client = db_listing[l].marketplace
        /\ c.op = "end_listing" <=> AllocatedTo(l) = 0
        /\ c.op = "update_stock" <=> AllocatedTo(l) # 0
        /\ c.op = "update_stock" => c.quantity = AllocatedTo(l)
        /\ s_results[l].action = "delisted" <=> c.op = "end_listing"
        /\ s_results[l].action = "updated" <=>
               (c.op = "update_stock" /\ s_results[l].new_stock = c.quantity)

\* C7: with active listings on two or more marketplaces, when the adapter
\* call of one listing raises, sync_inventory_levels still returns its
\* aggregate: that listing's entry is an error, every other listing's entry
\* is updated / delisted with its marketplace's allocation and its adapter
\* call and write-back were carried out.
C7_FailureIsIsolated ==
    \A l \in s_active :
        ( /\ SyncEnded
          /\ Cardinality({db_listing[k].marketplace : k \in s_active}) >= 2
          /\ AdapterRaised(l)
          /\ \A k \in s_active \ {l} : task[k] = "done" )
        => /\ s_pc = "returned"
           /\ s_results[l].action = "error"
           /\ \A k \in s_active \ {l} :
                 /\ s_results[k].action \in {"updated", "delisted"}
                 /\ s_results[k].action = "updated" =>
                        s_results[k].new_stock = AllocatedTo(k)

\* C8 as stated: once the call and its tasks have ended, every active listing
\* has had exactly one adapter operation, the one its allocation asks for.
C8_OneOperationPerActiveListing ==
    (SyncEnded /\ TasksEnded) =>
        \A l \in s_active : Len(calls[l]) = 1 /\ CallMatchesAllocation(l)

\* C8, amended: an active listing whose marketplace has a registered client
\* gets exactly one adapter operation once its task has run, end_listing iff
\* the marketplace's allocation is 0 and otherwise update_stock with exactly
\* that allocation, and the recorded action matches it; a listing whose
\* marketplace has no client, or that was not active, gets none.
C8_OneOperationPerRegisteredListing ==
    \A l \in Listings :
        /\ Len(calls[l]) <= 1
        /\ l \notin s_active => calls[l] = << >>
        /\ l \in s_active =>
            /\ db_listing[l].marketplace \notin marketplace_clients
                   => calls[l] = << >>
            /\ ( /\ db_listing[l].marketplace \in marketplace_clients
                 /\ task[l] # "scheduled" ) => Len(calls[l]) = 1
            /\ calls[l] # << >> => CallMatchesAllocation(l)

C8_Witness ==
    /\ s_pc = "returned" /\ s_status = "success"
    /\ \E l, k \in s_active :
          /\ calls[l] # << >> /\ calls[l][1].op = "end_listing"
          /\ calls[k] # << >> /\ calls[k][1].op = "update_stock"
          /\ calls[k][1].quantity = AllocatedTo(k) /\ AllocatedTo(k) >= 1

C10_NoRetry ==
    /\ \A l \in Listings : Len(calls[l]) <= 1
    /\ \A m \in Channels : c_calls[m] <= 1

C10_Witness ==
    /\ s_pc = "raised" /\ TasksEnded
    /\ \E l \in s_active : AdapterRaised(l) /\ task[l] = "failed"

\* C11: every per-listing task of sync_inventory_levels is joined before
\* control goes back to the caller: once the call has returned or raised, no
\* task still has its adapter call or its write-back ahead of it.
C11_TasksJoined ==
    SyncEnded =>
        \A l \in s_active : task[l] \notin {"scheduled", "called"}

\* C12: the tasks are those of the listings read at line 170, one per listing;
\* a listing record is written only by the task of that listing, so no record
\* has two writers, and results has one key per listing read, written before
\* the tasks run.
C12_OneWriterPerRecord ==
    /\ \A l \in Listings : task[l] # "none" <=> l \in s_active
    /\ \A k \in Listings :
          /\ written_by[k] \subseteq {k}
          /\ written_by[k] # {} => task[k] = "done"
    /\ s_active # {} => DOMAIN s_results = s_active

C12_Witness ==
    \E l, k \in s_active :
        /\ l # k
        /\ db_listing[l].marketplace = db_listing[k].marketplace
        /\ written_by[l] = {l} /\ written_by[k] = {k}
        /\ db_listing[l].quantity >= 1

\* C13: a listing record is written back only after the adapter call for that
\* listing succeeded; when the call raised, or the marketplace has no client,
\* or the listing was not active, the record is as it was read.
C13_WriteBackOnlyAfterSuccess ==
    \A l \in Listings :
        /\ written_by[l] # {} => calls[l] # << >> /\ calls[l][1].ok
        /\ ( \/ AdapterRaised(l)
             \/ l \in s_active /\
                   db_listing[l].marketplace \notin marketplace_clients )
           => /\ written_by[l] = {}
              /\ db_listing[l].status = "active"
              /\ db_listing[l].quantity = 0
        /\ (s_pc # "idle" /\ l \notin s_active) => written_by[l] = {}

C13_Witness ==
    \E l, k, n \in s_active :
        /\ AdapterRaised(l) /\ task[l] = "failed"
        /\ db_listing[l].quantity = 0
        /\ db_listing[k].marketplace \notin marketplace_clients
        /\ task[k] = "failed"
        /\ written_by[n] = {n} /\ db_listing[n].quantity >= 1

\* C14: the orchestrator raises only for invalid input: sync_inventory_levels
\* raises when an active listing is on a marketplace without a client, and
\* neither an adapter error nor an unexpected error inside a per-listing or
\* per-marketplace operation makes sync_inventory_levels or
\* create_or_update_listing raise.
C14_RaisesOnlyForInvalidInput ==
    /\ ( /\ SyncEnded
         /\ \E l \in s_active :
               db_listing[l].marketplace \notin marketplace_clients )
       => s_pc = "raised"
    /\ (s_pc = "raised" /\ s_active # {})
       => \E l \in s_active :
             db_listing[l].marketplace \notin marketplace_clients
    /\ c_pc # "raised"

\* C15: malformed input raises before any side effect: sync_inventory_levels
\* with a negative total_stock and create_or_update_listing with an empty
\* marketplace list raise, and no adapter call and no listing write is made.
C15_MalformedInputRaisesFirst ==
    /\ (s_pc # "idle" /\ s_stock < 0)
       => /\ s_pc = "raised"
          /\ \A l \in Listings : calls[l] = << >> /\ written_by[l] = {}
    /\ (c_pc # "idle" /\ c_given = << >>)
       => /\ c_pc = "raised"
          /\ \A m \in Channels : c_calls[m] = 0

\* The listings some completed call of sync_inventory_levels had a task for.
RaceSynced == UNION {r_active[i] : i \in {j \in Invocations : r_pc[j] = "returned"}}

\* C16: once every call of sync_inventory_levels made for the item has
\* returned, here one call or two concurrent calls with different
\* total_stock, each synced listing's stored quantity / status is what its
\* adapter accepted last, and both are what the allocation of one and the
\* same call asks for.
C16_StoredMatchesPushed ==
    ( /\ \A i \in Invocations : r_pc[i] \in {"idle", "returned"}
      /\ (\A i \in Invocations : r_pc[i] = "returned") =>
             r_stock[1] # r_stock[2] ) =>
        \A l \in RaceSynced :
            \E i \in Invocations :
                /\ r_pc[i] = "returned" /\ l \in r_active[i]
                /\ LET sched ==
                          ScheduledOp(r_alloc[i][db_listing[l].marketplace])
                   IN  /\ pushed[l] = [op |-> sched.op,
                                       quantity |-> sched.quantity]
                       /\ sched.op = "end_listing" =>
                              db_listing[l].status = "ended"
                       /\ sched.op = "update_stock" =>
                              /\ db_listing[l].status = "active"
                              /\ db_listing[l].quantity = sched.quantity

\* ----------------------------------------------------- claims: analyses

TrendDone == t_pc = "done"

\* The price samples of the listings: one per listing and one per completed
\* order.
NumSamples ==
    SumOver([i \in 1..Len(t_listings) |->
               1 + Cardinality({j \in 1..Len(t_listings[i].orders) :
                                  t_listings[i].orders[j].status = "completed"})],
            1..Len(t_listings))

QueryRaised(result) == result.outcome = "raised" /\ result.raised_by = "query"

\* C17: with fewer than 2 price samples, that is with no listing or with a
\* single listing without a completed order, analyze_historical_prices
\* returns trend 'insufficient_data' with confidence 0.0 and never runs the
\* line fit.
C17_TooFewSamples ==
    /\ NumSamples < 2 <=>
          \/ t_listings = << >>
          \/ /\ Len(t_listings) = 1
             /\ \A j \in 1..Len(t_listings[1].orders) :
                   t_listings[1].orders[j].status # "completed"
    /\ (TrendDone /\ ~QueryRaised(t_result) /\ NumSamples < 2) =>
          /\ t_result.outcome = "returned"
          /\ t_result.trend = "insufficient_data"
          /\ t_result.confidence = Zero
          /\ ~t_result.fit

C17_Witness ==
    /\ TrendDone /\ Len(t_listings) = 1
    /\ Len(t_listings[1].orders) = 2
    /\ \A j \in 1..2 : t_listings[1].orders[j].status = "pending"
    /\ t_result.outcome = "returned"
    /\ t_result.trend = "insufficient_data"

\* The samples in date order, and the sums of their line fit.
SortedSamples == SortByDate(CollectSamples(t_listings))

SampleFit == LineFit(SortedSamples)

\* The samples are 100, 102, 104, 106 on four consecutive days.
DailyExample ==
    /\ Len(SortedSamples) = 4
    /\ \A i \in 1..4 :
          /\ SortedSamples[i].price = 98 + 2 * i
          /\ SortedSamples[i].date = SortedSamples[1].date + i - 1

\* C18: with at least 2 samples the call returns a trend that is 'increasing'
\* exactly when the least-squares slope over days since the first sample is
\* above 0.01, 'decreasing' exactly when it is below -0.01 and 'stable'
\* otherwise, with the fit's R-squared as confidence, a number that is 0 when
\* all prices are equal; 100, 102, 104, 106 on consecutive days give
\* 'increasing' with confidence exactly 1.
C18_TrendBySlope ==
    (TrendDone /\ ~QueryRaised(t_result) /\ NumSamples >= 2) =>
        /\ t_result.outcome = "returned"
        /\ t_result.trend \in {"increasing", "decreasing", "stable"}
        /\ t_result.confidence.den # 0
        /\ SampleFit.ss_tot_n = 0 => t_result.confidence = Zero
        /\ SampleFit.slope_den > 0 =>
              /\ t_result.trend = "increasing" <=>
                    100 * SampleFit.slope_num > SampleFit.slope_den
              /\ t_result.trend = "decreasing" <=>
                    100 * SampleFit.slope_num < 0 - SampleFit.slope_den
              /\ SampleFit.ss_tot_n # 0 =>
                    t_result.confidence =
                        Fraction(SampleFit.slope_num * SampleFit.slope_num,
                                 SampleFit.slope_den * SampleFit.ss_tot_n)
        /\ DailyExample =>
              /\ t_result.trend = "increasing"
              /\ t_result.confidence.num = t_result.confidence.den

SeasonDone == d_pc = "done"

\* The count table: completed orders per calendar month, as aggregated.
CountTable == monthly_orders(d_orders)

TablePeaks ==
    {m \in DOMAIN CountTable :
        CountTable[m] * Cardinality(DOMAIN CountTable) > SumValues(CountTable)}

\* Two peak months next to each other in sorted order lie more than 4 apart.
WidePeakGap ==
    \E p, q \in TablePeaks :
        /\ q - p > 4
        /\ ~\E r \in TablePeaks : p < r /\ r < q

\* C19: predict_seasonal_demand decides in this order: fewer than 6 months
\* with data give 'insufficient_data'; otherwise 2 or fewer peak months
\* (count above the mean) give 'minimal_seasonality'; otherwise a largest gap
\* between consecutive sorted peak months above 4 gives 'multi_season';
\* otherwise 'single_season'; and no count table makes it raise.
C19_SeasonalDecisionOrder ==
    SeasonDone =>
        /\ d_result.outcome = "raised" => d_result.raised_by = "query"
        /\ d_result.outcome = "returned" =>
              d_result.pattern =
                  IF Cardinality(DOMAIN CountTable) < 6
                  THEN "insufficient_data"
                  ELSE IF Cardinality(TablePeaks) <= 2
                  THEN "minimal_seasonality"
                  ELSE IF WidePeakGap THEN "multi_season"
                  ELSE "single_season"

C19_Witness ==
    /\ SeasonDone /\ d_result.outcome = "returned"
    /\ d_result.pattern = "multi_season"
    /\ Cardinality(DOMAIN CountTable) = 7
    /\ d_result.peak_months = {1, 2, 11}

\* The orders of calendar month m that are completed and were created within
\* the trailing 365 days.
RecentCompleted(m) ==
    SumCounts({o \in d_orders : /\ o.status = "completed"
                                /\ o.age <= YearDays
                                /\ o.month = m})

\* C20: the monthly counts are those of the completed orders created within
\* the trailing 365 days: an older completed order is not counted, also when
\* its item has a recent order.
C20_OnlyTrailingYearCounted ==
    (SeasonDone /\ d_result.outcome = "returned") =>
        \A m \in 1..12 :
            (IF m \in DOMAIN CountTable THEN CountTable[m] ELSE 0)
                = RecentCompleted(m)

\* ------------------------------------------- claims: allocator, continued

\* C29: on the weighted path total_stock minus the sum of the base
\* allocations is below the number of marketplaces, so the loop of lines
\* 135-136 visits no marketplace twice and nobody gets more than one extra
\* unit.
C29_RemainderBelowChannelCount ==
    (AllocDone /\ a_result.path = "weighted") =>
        /\ a_result.remaining < NumChannels
        /\ \A m \in Range(a_ms) : Extra(m) \in {0, 1}

\* C30: the weighted allocation is monotone in the weight: a marketplace with
\* a strictly larger weight never gets less than one with a smaller weight,
\* and the result has exactly one entry per input marketplace.
C30_MonotoneInWeight ==
    (AllocDone /\ a_result.path = "weighted") =>
        /\ DOMAIN a_result.value = Range(a_ms)
        /\ Cardinality(DOMAIN a_result.value) = NumChannels
        /\ \A m, n \in Range(a_ms) :
              a_weight[m] > a_weight[n] =>
                  a_result.value[m] >= a_result.value[n]

C30_Witness ==
    /\ AllocDone /\ a_result.path = "weighted"
    /\ \E m, n \in Range(a_ms) :
          /\ a_weight[m] > a_weight[n]
          /\ a_result.base[m] = a_result.base[n]
          /\ Extra(m) = 1 /\ Extra(n) = 0

\* ----------------------------------------- claims: orchestrator, continued

\* The quantities of the update_stock calls the adapters accepted.
PushedQuantity(l) ==
    IF /\ calls[l] # << >>
       /\ calls[l][1].ok /\ calls[l][1].op = "update_stock"
    THEN calls[l][1].quantity ELSE 0

\* C26: with total_stock 0, sync_inventory_levels makes no update_stock call
\* with a positive quantity and, when it returns success, has ended every
\* active listing of the item, on the weighted and on the fallback path.
C26_ZeroStockDelistsAll ==
    (s_pc # "idle" /\ s_stock = 0) =>
        /\ \A l \in Listings :
              calls[l] # << >> =>
                  ~(calls[l][1].op = "update_stock" /\ calls[l][1].quantity > 0)
        /\ (s_pc = "returned" /\ s_status = "success") =>
              \A l \in s_active : db_listing[l].status = "ended"

\* C27: no oversell: after a successful sync_inventory_levels the quantities
\* pushed with update_stock, and the quantities stored, over the active
\* listings of the item sum to at most total_stock; here for a total_stock
\* of at least one unit per active listing.
C27_NoOversell ==
    ( /\ s_pc = "returned" /\ s_status = "success"
      /\ s_stock >= Cardinality(s_active) ) =>
        /\ SumOver([l \in s_active |-> PushedQuantity(l)], s_active)
              <= s_stock
        /\ SumOver([l \in s_active |->
                       IF db_listing[l].status = "active"
                       THEN db_listing[l].quantity ELSE 0], s_active)
              <= s_stock

\* sync_inventory_levels has raised and the adapter call of listing l failed.
RaisedOnAdapterFailure(l) ==
    s_pc = "raised" /\ l \in s_active /\ AdapterRaised(l) /\ task[l] = "failed"

PricingInit ==
    /\ OthersIdle
    /\ op = "pricing"
    /\ w_pc = "idle" /\ w_history = << >> /\ w_result = NoAnalysis
    /\ p_pc = "call" /\ p_item \in PricingItems /\ p_result = NoAnalysis
    /\ m_pc = "idle" /\ m_items = << >> /\ m_done = 0
    /\ m_results = EmptyMap /\ m_recorded = {}
    /\ m_seen = 0 /\ m_raised_by = "none"

AnalyzeCompetitivePricing(readFails) ==
    /\ op = "pricing" /\ p_pc = "call"
    /\ p_result' = analyze_competitive_pricing(p_item, readFails)
    /\ p_pc' = "done"
    /\ UNCHANGED <<allocVars, op, marketplace_clients, syncVars, createVars,
                   raceVars, analyticsVars, routerVars, p_item,
                   w_pc, w_history, w_result,
                   m_pc, m_items, m_done, m_results, m_recorded,
                   m_seen, m_raised_by>>

PricingNext == \E readFails \in BOOLEAN : AnalyzeCompetitivePricing(readFails)

PricingSpec == PricingInit /\ [][PricingNext]_vars

\* --------------------------------------------------------- market research

CollectInit ==
    /\ OthersIdle
    /\ op = "collect"
    /\ w_pc = "idle" /\ w_history = << >> /\ w_result = NoAnalysis
    /\ p_pc = "idle" /\ p_item = << >> /\ p_result = NoAnalysis
    /\ m_pc = "call" /\ m_items \in DistinctSeqs(ResearchItems) /\ m_done = 0
    /\ m_results = EmptyMap /\ m_recorded = {}
    /\ m_seen = 0 /\ m_raised_by = "none"

collectFrame ==
    UNCHANGED <<allocVars, op, marketplace_clients, syncVars, createVars,
                raceVars, analyticsVars, routerVars, m_items,
                w_pc, w_history, w_result, p_pc, p_item, p_result>>

\* collect_market_data, line 53: authenticate, outside the loop; a failure
\* reaches the handler of lines 86-88, which re-raises, and
\* run_market_research re-raises in turn (lines 442-444).
CollectAuthenticate(fails) ==
    /\ op = "collect" /\ m_pc = "call"
    /\ m_pc' = IF fails THEN "raised" ELSE "loop"
    /\ m_raised_by' = IF fails THEN "authenticate" ELSE "none"
    /\ UNCHANGED <<m_done, m_results, m_recorded, m_seen>>
    /\ collectFrame

\* One pass of the loop of lines 56-82.  An error the inner except clause
\* does not name leaves the loop for the handler of lines 86-88.
CollectItem(outcome) ==
    /\ op = "collect" /\ m_pc = "loop" /\ m_done < Len(m_items)
    /\ IF outcome = "ok" \/ CaughtPerItem(outcome)
       THEN /\ m_results' = Put(m_results, m_items[m_done + 1],
                                ResultEntry(outcome))
            /\ m_done' = m_done + 1
            /\ UNCHANGED <<m_pc, m_raised_by>>
       ELSE /\ m_pc' = "raised"
            /\ m_raised_by' = outcome
            /\ UNCHANGED <<m_done, m_results>>
    /\ UNCHANGED <<m_recorded, m_seen>>
    /\ collectFrame

\* Line 84: return results, to line 433 of run_market_research.
CollectReturn ==
    /\ op = "collect" /\ m_pc = "loop" /\ m_done = Len(m_items)
    /\ m_pc' = "recording"
    /\ UNCHANGED <<m_done, m_results, m_recorded, m_seen, m_raised_by>>
    /\ collectFrame

\* run_market_research, lines 436-438: one pass over results, in the order
\* the entries were made.  updateFails: update_analytics_data raises.
RecordAnalytics(updateFails) ==
    /\ op = "collect" /\ m_pc = "recording" /\ m_seen < Len(m_items)
    /\ LET item_id == m_items[m_seen + 1] IN
         IF ~HasNoError(m_results[item_id])
         THEN /\ m_seen' = m_seen + 1
              /\ UNCHANGED <<m_pc, m_recorded, m_raised_by>>
         ELSE IF updateFails
         THEN /\ m_pc' = "raised"
              /\ m_raised_by' = "analytics"
              /\ UNCHANGED <<m_recorded, m_seen>>
         ELSE /\ m_recorded' = m_recorded \cup {item_id}
              /\ m_seen' = m_seen + 1
              /\ UNCHANGED <<m_pc, m_raised_by>>
    /\ UNCHANGED <<m_done, m_results>>
    /\ collectFrame

\* Line 440: run_market_research is through.
ResearchFinished ==
    /\ op = "collect" /\ m_pc = "recording" /\ m_seen = Len(m_items)
    /\ m_pc' = "finished"
    /\ UNCHANGED <<m_done, m_results, m_recorded, m_seen, m_raised_by>>
    /\ collectFrame

CollectNext ==
    \/ \E fails \in BOOLEAN : CollectAuthenticate(fails)
    \/ \E outcome \in ItemOutcomes : CollectItem(outcome)
    \/ CollectReturn
    \/ \E updateFails \in BOOLEAN : RecordAnalytics(updateFails)
    \/ ResearchFinished

CollectSpec == CollectInit /\ [][CollectNext]_vars

\* ------------------------------------------------------- claims: weights

\* C24: every weight the allocator uses is between 0.1 and 1.0, whatever the
\* mix of completed, cancelled and pending orders and whatever the times
\* between listing creation and order completion; a marketplace without
\* order history gets exactly 1.0.
C24_WeightInRange ==
    (w_pc = "done" /\ w_result.outcome = "returned") =>
        /\ 10 * w_result.weight.num >= w_result.weight.den
        /\ w_result.weight.num <= w_result.weight.den
        /\ w_history = << >> => w_result.weight = One

\* ------------------------------------------------------- claims: pricing

\* The competitor price samples of marketplace m in the analysed item.
ChannelSamples(m) == MarketplacePrices(p_item.listings, m)

ChannelsWithSamples == {m \in PricingMarketplaces : ChannelSamples(m) # << >>}

SampleSum(m) == SumOver(ChannelSamples(m), 1..Len(ChannelSamples(m)))

\* The average of channel a is at most that of channel b.
AvgAtMost(a, b) ==
    SampleSum(a) * Len(ChannelSamples(b)) <= SampleSum(b) * Len(ChannelSamples(a))

\* The fraction f equals num / den.
Equals(f, num, den) == f.num * den = num * f.den

\* C21: when no channel has any competitor price sample the analysis returns
\* 'insufficient_data' and does not raise, also when market-research records
\* exist whose price lists are all empty.
C21_NoSamplesInsufficientData ==
    (p_pc = "done" /\ ChannelsWithSamples = {}) =>
        /\ p_result.outcome = "raised" => p_result.raised_by = "query"
        /\ p_result.outcome = "returned" =>
               p_result.recommendation = "insufficient_data"

\* C22: with samples on two or more channels the recommendation is
\* 'match_market' with the lowest average as target exactly when the highest
\* average exceeds the lowest by less than 10% of the lowest, and otherwise
\* 'competitive_advantage' with 95% of the highest average as target; the
\* confidence is min(total samples / 20, 1).  With samples on exactly one
\* channel it is 'single_marketplace', that channel's average, confidence
\* 0.5.  Averages of 100 and 102 over 10 samples each give 'match_market'
\* with target 100.
C22_PricingRecommendation ==
    (p_pc = "done" /\ p_result.outcome = "returned") =>
        LET ch == ChannelsWithSamples
            lo == CHOOSE a \in ch : \A b \in ch : AvgAtMost(a, b)
            hi == CHOOSE a \in ch : \A b \in ch : AvgAtMost(b, a)
            ls == SampleSum(lo)
            ln == Len(ChannelSamples(lo))
            hs == SampleSum(hi)
            hn == Len(ChannelSamples(hi))
            total == SumOver([m \in ch |-> Len(ChannelSamples(m))], ch)
        IN  /\ Cardinality(ch) >= 2 =>
                /\ IF 10 * (hs * ln - ls * hn) < ls * hn
                   THEN /\ p_result.recommendation = "match_market"
                        /\ Equals(p_result.target_price, ls, ln)
                   ELSE /\ p_result.recommendation = "competitive_advantage"
                        /\ Equals(p_result.target_price, 19 * hs, 20 * hn)
                /\ IF total >= 20 THEN p_result.confidence = One
                   ELSE Equals(p_result.confidence, total, 20)
                /\ (/\ Cardinality(ch) = 2
                    /\ ln = 10 /\ hn = 10 /\ ls = 1000 /\ hs = 1020)
                   => /\ p_result.recommendation = "match_market"
                      /\ p_result.target_price = Fraction(100, 1)
            /\ Cardinality(ch) = 1 =>
                /\ p_result.recommendation = "single_marketplace"
                /\ Equals(p_result.target_price, ls, ln)
                /\ p_result.confidence = Fraction(1, 2)

\* Two channels with averages 100 and 102 over 10 samples each have been
\* analysed.
C22_Witness ==
    /\ p_pc = "done" /\ p_result.outcome = "returned"
    /\ Cardinality(ChannelsWithSamples) = 2
    /\ {<<SampleSum(m), Len(ChannelSamples(m))>> : m \in ChannelsWithSamples}
           = {<<1000, 10>>, <<1020, 10>>}
    /\ p_result.recommendation = "match_market"
    /\ p_result.target_price = Fraction(100, 1)
    /\ p_result.confidence = One

\* ---------------------------------------------------- claims: confidences

\* The fraction f is a number of the interval [0, 1].
InUnitInterval(f) == f.den > 0 /\ 0 <= f.num /\ f.num <= f.den

\* C23: every confidence returned by the three analyses lies in [0, 1]: the
\* seasonal confidence is never negative, the competitive confidence is in
\* (0, 1], and the trend confidence (R squared) is within [0, 1].
C23_ConfidenceInUnitInterval ==
    /\ (t_pc = "done" /\ t_result.outcome = "returned") =>
           InUnitInterval(t_result.confidence)
    /\ (d_pc = "done" /\ d_result.outcome = "returned") =>
           InUnitInterval(d_result.confidence)
    /\ (p_pc = "done" /\ p_result.outcome = "returned") =>
           /\ InUnitInterval(p_result.confidence)
           /\ p_result.confidence.num > 0

\* ----------------------------------------------- claims: market research

\* C25: an error of the marketplace taxonomy raised while one item is
\* processed becomes an error entry under that item's key and the remaining
\* items are still collected, so collect_market_data does not raise for it
\* and returns an entry for every item; run_market_research records
\* analytics only for the items whose entry has no error.
C25_ItemErrorsBecomeEntries ==
    /\ m_pc = "raised" => m_raised_by \in {"authenticate", "analytics"}
    /\ m_pc \in {"recording", "finished"} =>
           DOMAIN m_results = {m_items[i] : i \in 1..Len(m_items)}
    /\ \A i \in m_recorded : HasNoError(m_results[i])
    /\ m_pc = "finished" =>
           m_recorded = {i \in DOMAIN m_results : HasNoError(m_results[i])}

====
